---- MODULE Spec2Model ----
(***************************************************************************)
(* Model of jg-l/roll (src/main.go): a CLI that keeps one TOML            *)
(* configuration file per name and one State record per name in a bbolt   *)
(* bucket, and rolls against an effective chance with a pity counter.     *)
(*                                                                         *)
(* Spec     : one invocation of the tool per step (create, roll, list,    *)
(*            show, delete, dice), store failures included.               *)
(* SpecConc : several processes running "roll" concurrently, step by step *)
(*            through bolt.Open, loadConfig, the db.Update transaction    *)
(*            and process exit.                                            *)
(* SpecEngine : the decision engine alone: a Configuration drawn from      *)
(*            bounded sets, a fresh State, and one roll per step.          *)
(* SpecDice : the dice command alone, over every dice type.                *)
(***************************************************************************)
EXTENDS Integers, FiniteSets, Sequences, TLC

VARIABLES
    configFiles,  \* name -> Config: the <name>.toml files under configDir
    bucket,       \* TRUE iff the "states" bucket exists in roll.db
    states,       \* name -> State: the records of the "states" bucket
    out,          \* what the last invocation printed / how it ended
    pc,           \* SpecConc: position of each process
    pname,        \* SpecConc: the name argument of each process
    local,        \* SpecConc: config and state variables of each process
    flock,        \* SpecConc: process holding the file lock of roll.db
    eng           \* SpecEngine: one Configuration, its State and the last roll

vars == <<configFiles, bucket, states, out, pc, pname, local, flock, eng>>
storeVars == <<configFiles, bucket, states>>
procVars == <<pc, pname, local, flock>>

----------------------------------------------------------------------------
(* Bounds of the model *)

BaseChance == 50     \* the base chance of the configurations that can fail and succeed
MaxGrace == 30       \* the grace of the configurations with a pity bonus
MaxPity == 2         \* the largest pity cap created
MaxVariance == 2     \* the largest variance created
RollStep == 50       \* raw rolls tried: 1, 100 and the multiples of RollStep
NumProcs == 2        \* SpecConc: number of concurrent processes
MaxRolls == 4        \* SpecEngine: number of rolls after the create
MaxEnginePity == 3   \* SpecEngine: the largest pity cap drawn

Names == {"a", "b"}
Procs == 1..NumProcs
NoProc == 0

\* rand.Intn(100) + 1 ranges over 1..100; the model samples it
Rolls == {r \in 1..100 : r = 1 \/ r = 100 \/ r % RollStep = 0}

\* <<chance, grace, pity, variance>> arguments of create that pass validation
ValidCreateArgs ==
    { <<BaseChance, MaxGrace, MaxPity, 0>>,
      <<BaseChance, MaxGrace, MaxPity, MaxVariance>>,
      <<100, 0, 0, MaxVariance>>,
      <<0, 0, MaxPity - 1, 0>> }

\* ... and arguments that do not
InvalidCreateArgs ==
    { <<-1, 0, 0, 0>>, <<101, 0, 0, 0>>, <<0, -1, 0, 0>>,
      <<0, 0, -1, 0>>, <<0, 0, 0, -1>> }

----------------------------------------------------------------------------
(* Data *)

Config(n, c, g, p, v) ==
    [Name |-> n, Chance |-> c, Grace |-> g, Pity |-> p, Variance |-> v]

State(k, r) == [PityCounter |-> k, LastRoll |-> r]

\* what toml.DecodeFile yields for a file truncated by os.Create and never written
ZeroConfig == Config("", 0, 0, 0, 0)

EmptyStore == [x \in {} |-> 0]

Put(f, k, v) == [x \in (DOMAIN f) \cup {k} |-> IF x = k THEN v ELSE f[x]]

Remove(f, k) == [x \in (DOMAIN f) \ {k} |-> f[x]]

----------------------------------------------------------------------------
(* The decision engine: the body of the db.Update closure of rollCmd *)

\* rand.Intn(config.Variance) + 1, drawn only when config.Variance > 0
VarianceRolls(config) ==
    IF config.Variance > 0 THEN 1..config.Variance ELSE {1}

\* rand.Intn(varianceRoll)
SecondDraws(varianceRoll) == 0..(varianceRoll - 1)

\* variant of BonusFires that compares the second draw with 1
BonusFiresOnOne(config, second) == config.Variance > 0 /\ second = 1

\* if config.Variance > 0 { ... if rand.Intn(varianceRoll) == 0 {
BonusFires(config, second) == config.Variance > 0 /\ second = 0

\* variant of EffectiveChance without the cap at 100
EffectiveChanceUncapped(config, state, second) ==
    LET base == config.Chance + (state.PityCounter * config.Grace)
    IN  IF BonusFires(config, second) THEN base + config.Grace ELSE base

\* variant of EffectiveChance that caps before it adds the variance bonus
EffectiveChanceCapFirst(config, state, second) ==
    LET base == config.Chance + (state.PityCounter * config.Grace)
        capped == IF base > 100 THEN 100 ELSE base
    IN  IF BonusFires(config, second) THEN capped + config.Grace ELSE capped

\* effectiveChance of rollCmd: base, pity bonus, variance bonus, then the cap
EffectiveChance(config, state, second) ==
    LET base == config.Chance + (state.PityCounter * config.Grace)
        withVariance == IF BonusFires(config, second)
                        THEN base + config.Grace ELSE base
    IN  IF withVariance > 100 THEN 100 ELSE withVariance

\* variant of Success with a strict comparison
SuccessStrict(roll, effectiveChance) == roll < effectiveChance

\* success := roll <= effectiveChance
Success(roll, effectiveChance) == roll <= effectiveChance

\* variant of NewPityCounter that increments past config.Pity
NewPityCounterNoCap(config, state, success) ==
    IF success THEN 0 ELSE state.PityCounter + 1

\* variant of NewPityCounter that keeps the counter on success
NewPityCounterNoReset(config, state, success) ==
    IF success THEN state.PityCounter
    ELSE IF state.PityCounter < config.Pity
         THEN state.PityCounter + 1 ELSE state.PityCounter

\* state.PityCounter after the success / failure branches of rollCmd
NewPityCounter(config, state, success) ==
    IF success THEN 0
    ELSE IF state.PityCounter < config.Pity
         THEN state.PityCounter + 1 ELSE state.PityCounter

\* variant of NewLastRoll that records the roll only on success
NewLastRollOnSuccess(state, roll, success) ==
    IF success THEN roll ELSE state.LastRoll

\* state.LastRoll = roll, after both branches
NewLastRoll(state, roll, success) == roll

RollState(config, state, second, roll) ==
    LET success == Success(roll, EffectiveChance(config, state, second))
    IN  State(NewPityCounter(config, state, success),
              NewLastRoll(state, roll, success))

\* the lines rollCmd prints before it saves the state
RollReport(config, state, second, roll) ==
    [base      |-> config.Chance,
     pity      |-> state.PityCounter,
     bonus     |-> state.PityCounter * config.Grace,
     effective |-> EffectiveChance(config, state, second),
     roll      |-> roll,
     success   |-> Success(roll, EffectiveChance(config, state, second))]

\* "Current chance" as showCmd prints it
ShowChance(config, state) == config.Chance + (state.PityCounter * config.Grace)

----------------------------------------------------------------------------
(* The stores *)

\* os.Create + toml.Encode of createCmd: the file is created or overwritten
SaveConfig(files, n, config) == Put(files, n, config)

\* os.Create succeeded (the file is truncated) and Encode failed
TruncateConfig(files, n) == Put(files, n, ZeroConfig)

\* variant of InitState that keeps an existing record
InitStateIfAbsent(recs, n) ==
    IF n \in DOMAIN recs THEN recs ELSE Put(recs, n, State(0, 0))

\* b.Put(name, {0,0}) of createCmd
InitState(recs, n) == Put(recs, n, State(0, 0))

\* variant of RemoveConfig that removes every file
RemoveAllConfigs(files, n) == EmptyStore

\* os.Remove(configPath) of deleteCmd
RemoveConfig(files, n) == Remove(files, n)

\* b.Delete(name) of deleteCmd, skipped when the bucket does not exist
DeleteState(bkt, recs, n) == IF bkt THEN Remove(recs, n) ELSE recs

\* variant of ValidArgs without the upper limit of chance
ValidArgsNoUpper(c, g, p, v) == ~(c < 0) /\ ~(g < 0) /\ ~(p < 0) /\ ~(v < 0)

\* the "Validate values" tests of createCmd
ValidArgs(c, g, p, v) == ~(c < 0 \/ c > 100) /\ ~(g < 0) /\ ~(p < 0) /\ ~(v < 0)

----------------------------------------------------------------------------
(* Spec: one invocation per step *)

Ended(cmd, n, err) == [cmd |-> cmd, name |-> n, err |-> err]

Create(n, c, g, p, v, fail) ==
    /\ UNCHANGED <<procVars, eng>>
    /\ IF ~ValidArgs(c, g, p, v)
       THEN /\ out' = Ended("create", n, "validation")
            /\ UNCHANGED storeVars
       ELSE CASE fail = "file" ->
                   /\ out' = Ended("create", n, "file")
                   /\ UNCHANGED storeVars
              [] fail = "encode" ->
                   /\ configFiles' = TruncateConfig(configFiles, n)
                   /\ out' = Ended("create", n, "encode")
                   /\ UNCHANGED <<bucket, states>>
              [] fail = "db" ->
                   /\ configFiles' = SaveConfig(configFiles, n, Config(n, c, g, p, v))
                   /\ out' = Ended("create", n, "db")
                   /\ UNCHANGED <<bucket, states>>
              [] OTHER ->
                   /\ configFiles' = SaveConfig(configFiles, n, Config(n, c, g, p, v))
                   /\ bucket' = TRUE
                   /\ states' = InitState(states, n)
                   /\ out' = Ended("create", n, "none")

RollOut(n, err, report) ==
    [cmd |-> "roll", name |-> n, err |-> err, printed |-> TRUE, report |-> report]

RollFatal(n, err) ==
    [cmd |-> "roll", name |-> n, err |-> err, printed |-> FALSE]

Roll(n, fail) ==
    /\ UNCHANGED <<procVars, eng>>
    /\ UNCHANGED <<configFiles, bucket>>
    /\ IF n \notin DOMAIN configFiles
       THEN out' = RollFatal(n, "config") /\ UNCHANGED states
       ELSE IF ~bucket
       THEN out' = RollFatal(n, "bucket") /\ UNCHANGED states
       ELSE IF n \notin DOMAIN states
       THEN out' = RollFatal(n, "state") /\ UNCHANGED states
       ELSE LET config == configFiles[n]
                state == states[n]
            IN  \E varianceRoll \in VarianceRolls(config) :
                \E second \in SecondDraws(varianceRoll) :
                \E roll \in Rolls :
                   IF fail = "commit"
                   THEN /\ out' = RollOut(n, "commit", RollReport(config, state, second, roll))
                        /\ UNCHANGED states
                   ELSE /\ out' = RollOut(n, "none", RollReport(config, state, second, roll))
                        /\ states' = Put(states, n, RollState(config, state, second, roll))

List ==
    /\ UNCHANGED <<procVars, eng>>
    /\ UNCHANGED storeVars
    /\ out' = [cmd |-> "list", name |-> "", err |-> "none",
               listing |-> [n \in DOMAIN configFiles |->
                              IF bucket /\ n \in DOMAIN states
                              THEN states[n].PityCounter ELSE 0]]

Show(n) ==
    /\ UNCHANGED <<procVars, eng>>
    /\ UNCHANGED storeVars
    /\ IF n \notin DOMAIN configFiles
       THEN out' = Ended("show", n, "config")
       ELSE IF ~bucket
       THEN out' = Ended("show", n, "bucket")
       ELSE IF n \notin DOMAIN states
       THEN out' = Ended("show", n, "state")
       ELSE out' = [cmd |-> "show", name |-> n, err |-> "none",
                    pity |-> states[n].PityCounter,
                    chance |-> ShowChance(configFiles[n], states[n]),
                    lastRoll |-> states[n].LastRoll]

\* variant of RemoveFails that accepts a missing file
RemoveFailsOnIO(files, n, fail) == fail = "file"

\* os.Remove(configPath) returns an error: no such file, or an I/O failure
RemoveFails(files, n, fail) == n \notin DOMAIN files \/ fail = "file"

Delete(n, fail) ==
    /\ UNCHANGED <<procVars, eng>>
    /\ IF RemoveFails(configFiles, n, fail)
       THEN /\ out' = Ended("delete", n, "file")
            /\ UNCHANGED storeVars
       ELSE IF fail = "db"
       THEN /\ configFiles' = RemoveConfig(configFiles, n)
            /\ out' = Ended("delete", n, "db")
            /\ UNCHANGED <<bucket, states>>
       ELSE /\ configFiles' = RemoveConfig(configFiles, n)
            /\ states' = DeleteState(bucket, states, n)
            /\ out' = Ended("delete", n, "none")
            /\ UNCHANGED bucket

\* the switch of diceCmd; 0 stands for the default branch (log.Fatal)
Sides(diceType) ==
    CASE diceType \in {"d10", "D10"} -> 10
      [] diceType \in {"d5", "D5"} -> 5
      [] diceType \in {"d4", "D4"} -> 4
      [] diceType \in {"d6", "D6"} -> 6
      [] diceType \in {"d8", "D8"} -> 8
      [] diceType \in {"d12", "D12"} -> 12
      [] diceType \in {"d20", "D20"} -> 20
      [] diceType \in {"d100", "D100"} -> 100
      [] OTHER -> 0

DiceArgs == {"D4", "d7"}
Shifts == {0, 10}

\* variant of DiceReport that shifts the roll itself
DiceReportShiftsRoll(diceType, roll, shift) ==
    [cmd |-> "dice", name |-> "", err |-> "none",
     dtype |-> diceType, shift |-> shift,
     roll |-> roll + shift,
     shifted |-> shift # 0,
     result |-> IF shift # 0 THEN roll + shift ELSE roll,
     lo |-> IF shift # 0 THEN 1 + shift ELSE 1,
     hi |-> IF shift # 0 THEN Sides(diceType) + shift ELSE Sides(diceType)]

\* what diceCmd prints: the roll, the shifted result if shift != 0 (else the
\* roll alone), and the range lo-hi
DiceReport(diceType, roll, shift) ==
    [cmd |-> "dice", name |-> "", err |-> "none",
     dtype |-> diceType, shift |-> shift,
     roll |-> roll,
     shifted |-> shift # 0,
     result |-> IF shift # 0 THEN roll + shift ELSE roll,
     lo |-> IF shift # 0 THEN 1 + shift ELSE 1,
     hi |-> IF shift # 0 THEN Sides(diceType) + shift ELSE Sides(diceType)]

Dice(diceType, shift) ==
    /\ UNCHANGED <<procVars, eng>>
    /\ UNCHANGED storeVars
    /\ IF Sides(diceType) = 0
       THEN out' = Ended("dice", "", "type")
       ELSE \E roll \in 1..Sides(diceType) :
               out' = DiceReport(diceType, roll, shift)

\* the engine variable of the specifications that do not use it
NoEngine == [rolled |-> FALSE]

NoLocal == [config |-> ZeroConfig, state |-> State(0, 0)]

Init ==
    /\ configFiles = EmptyStore
    /\ bucket = FALSE
    /\ states = EmptyStore
    /\ out = Ended("none", "", "none")
    /\ pc = [p \in Procs |-> "idle"]
    /\ pname = [p \in Procs |-> "a"]
    /\ local = [p \in Procs |-> NoLocal]
    /\ flock = NoProc
    /\ eng = NoEngine

CreateCmd ==
    \/ \E n \in Names, a \in ValidCreateArgs,
          fail \in {"none", "file", "encode", "db"} :
          Create(n, a[1], a[2], a[3], a[4], fail)
    \/ \E n \in Names, a \in InvalidCreateArgs :
          Create(n, a[1], a[2], a[3], a[4], "none")

RollCmd == \E n \in Names, fail \in {"none", "commit"} : Roll(n, fail)

ListCmd == List

ShowCmd == \E n \in Names : Show(n)

DeleteCmd == \E n \in Names, fail \in {"none", "file", "db"} : Delete(n, fail)

DiceCmd == \E t \in DiceArgs, s \in Shifts : Dice(t, s)

Next == CreateCmd \/ RollCmd \/ ListCmd \/ ShowCmd \/ DeleteCmd \/ DiceCmd

Spec == Init /\ [][Next]_vars

----------------------------------------------------------------------------
(* SpecConc: concurrent "roll" processes, one step per store access *)

\* variant of LockFree that does not wait for the file lock
LockIgnored(holder) == TRUE

\* bolt.Open takes an exclusive flock on roll.db and, with no Timeout
\* option, waits for it as long as another process holds it
LockFree(holder) == holder = NoProc

\* the operating system drops the flock when the process ends
Release(holder, p) == IF holder = p THEN NoProc ELSE holder

\* a process is started: "roll n"
Invoke(p, n) ==
    /\ pc[p] = "idle"
    /\ pc' = [pc EXCEPT ![p] = "open"]
    /\ pname' = [pname EXCEPT ![p] = n]
    /\ UNCHANGED <<storeVars, out, eng, local, flock>>

\* main: bolt.Open(dbPath, 0600, nil)
Open(p) ==
    /\ pc[p] = "open"
    /\ LockFree(flock)
    /\ flock' = p
    /\ pc' = [pc EXCEPT ![p] = "load"]
    /\ UNCHANGED <<storeVars, out, eng, pname, local>>

\* rollCmd: loadConfig(name); log.Fatal ends the process
LoadConfig(p) ==
    /\ pc[p] = "load"
    /\ IF pname[p] \in DOMAIN configFiles
       THEN /\ local' = [local EXCEPT ![p].config = configFiles[pname[p]]]
            /\ pc' = [pc EXCEPT ![p] = "read"]
       ELSE /\ pc' = [pc EXCEPT ![p] = "exit"]
            /\ UNCHANGED local
    /\ UNCHANGED <<storeVars, out, eng, pname, flock>>

\* rollCmd, in db.Update: tx.Bucket, b.Get, json.Unmarshal
TxRead(p) ==
    /\ pc[p] = "read"
    /\ IF bucket /\ pname[p] \in DOMAIN states
       THEN /\ local' = [local EXCEPT ![p].state = states[pname[p]]]
            /\ pc' = [pc EXCEPT ![p] = "write"]
       ELSE /\ pc' = [pc EXCEPT ![p] = "exit"]
            /\ UNCHANGED local
    /\ UNCHANGED <<storeVars, out, eng, pname, flock>>

\* rollCmd, in db.Update: the roll, b.Put and the commit of the transaction
TxWrite(p, fail) ==
    /\ pc[p] = "write"
    /\ \E varianceRoll \in VarianceRolls(local[p].config) :
       \E second \in SecondDraws(varianceRoll) :
       \E roll \in Rolls :
          states' = IF fail = "commit" THEN states
                    ELSE Put(states, pname[p],
                             RollState(local[p].config, local[p].state, second, roll))
    /\ pc' = [pc EXCEPT ![p] = "exit"]
    /\ UNCHANGED <<configFiles, bucket, out, eng, pname, local, flock>>

\* the process ends (return from main, or os.Exit in log.Fatal)
Exit(p) ==
    /\ pc[p] = "exit"
    /\ flock' = Release(flock, p)
    /\ pc' = [pc EXCEPT ![p] = "idle"]
    /\ local' = [local EXCEPT ![p] = NoLocal]
    /\ UNCHANGED <<storeVars, out, eng, pname>>

\* the stores as some earlier creates left them
InitConc ==
    /\ \E D \in (SUBSET Names) \ {{}} :
          /\ \E args \in [D -> ValidCreateArgs] :
                configFiles = [n \in D |->
                    Config(n, args[n][1], args[n][2], args[n][3], args[n][4])]
          /\ states = [n \in D |-> State(0, 0)]
    /\ bucket = TRUE
    /\ out = Ended("none", "", "none")
    /\ pc = [p \in Procs |-> "idle"]
    /\ pname = [p \in Procs |-> "a"]
    /\ local = [p \in Procs |-> NoLocal]
    /\ flock = NoProc
    /\ eng = NoEngine

InvokeStep == \E p \in Procs, n \in Names : Invoke(p, n)

OpenStep == \E p \in Procs : Open(p)

LoadConfigStep == \E p \in Procs : LoadConfig(p)

TxReadStep == \E p \in Procs : TxRead(p)

TxWriteStep == \E p \in Procs, fail \in {"none", "commit"} : TxWrite(p, fail)

ExitStep == \E p \in Procs : Exit(p)

NextConc ==
    InvokeStep \/ OpenStep \/ LoadConfigStep \/ TxReadStep \/ TxWriteStep \/ ExitStep

SpecConc == InitConc /\ [][NextConc]_vars

----------------------------------------------------------------------------
(* Helpers of the properties *)

\* the step just taken was an invocation of cmd on name n
Ran(cmd, n) == out'.cmd = cmd /\ out'.name = n

\* the State record of n is not the same before and after the step
StateChanged(n) ==
    \/ (n \in DOMAIN states) # (n \in DOMAIN states')
    \/ n \in DOMAIN states /\ n \in DOMAIN states' /\ states'[n] # states[n]

\* the Configuration of n is not the same before and after the step
ConfigChanged(n) ==
    \/ (n \in DOMAIN configFiles) # (n \in DOMAIN configFiles')
    \/ /\ n \in DOMAIN configFiles
       /\ n \in DOMAIN configFiles'
       /\ configFiles'[n] # configFiles[n]

Min100(x) == IF x > 100 THEN 100 ELSE x

\* the last invocation was a roll that printed its report and committed
RollCommitted == out.cmd = "roll" /\ out.err = "none"

----------------------------------------------------------------------------
(* Properties of Spec *)

\* C1: a create that completes leaves pity_counter = 0 <= config.pity, and
\* every committed roll of a name whose pity_counter is within
\* 0..config.pity leaves it within 0..config.pity; at the cap, a failing
\* roll leaves it at the cap.
C1_PityCounterBounded ==
    [][\A n \in Names :
         /\ Ran("create", n) /\ out'.err = "none"
               => /\ states'[n].PityCounter = 0
                  /\ states'[n].PityCounter <= configFiles'[n].Pity
         /\ Ran("roll", n) /\ out'.err = "none"
                           /\ states[n].PityCounter \in 0..configFiles[n].Pity
               => /\ states'[n].PityCounter \in 0..configFiles'[n].Pity
                  /\ (states[n].PityCounter = configFiles[n].Pity
                        /\ ~out'.report.success
                      => states'[n].PityCounter = configFiles'[n].Pity)
      ]_vars

\* a failing roll was committed with the counter already at a positive cap
C1_Witness ==
    /\ RollCommitted
    /\ ~out.report.success
    /\ configFiles[out.name].Pity > 0
    /\ out.report.pity = configFiles[out.name].Pity
    /\ states[out.name].PityCounter = configFiles[out.name].Pity

\* C2: after a committed roll whose raw roll is <= its effective chance, the
\* persisted pity_counter of that name is 0.
C2_SuccessResetsPity ==
    RollCommitted /\ out.report.roll <= out.report.effective
        => states[out.name].PityCounter = 0

\* a roll succeeded from a positive pity counter
C2_Witness ==
    /\ RollCommitted
    /\ out.report.roll <= out.report.effective
    /\ out.report.pity > 0
    /\ states[out.name].PityCounter = 0

\* C5 as stated: create, show, list and dice leave an existing State record
\* as it was.
C5_CreateKeepsExistingState ==
    [][\A n \in Names :
         out'.cmd \in {"create", "show", "list", "dice"} /\ n \in DOMAIN states
            => n \in DOMAIN states' /\ states'[n] = states[n]
      ]_vars

\* C5 amended: the State record of a name changes only in a roll, a create or
\* a delete of that name; a create that completes leaves it {0,0}, whatever
\* it was; show, list and dice change no State.
C5_StateChangedOnlyByRollCreateDelete ==
    [][\A n \in Names :
         /\ StateChanged(n)
               => out'.name = n /\ out'.cmd \in {"roll", "create", "delete"}
         /\ Ran("create", n) /\ out'.err = "none"
               => n \in DOMAIN states' /\ states'[n] = State(0, 0)
      ]_vars

\* a create completed while the other name keeps a State that rolls have changed
C5_Witness ==
    /\ out.cmd = "create" /\ out.err = "none"
    /\ states[out.name] = State(0, 0)
    /\ \E m \in DOMAIN states : m # out.name /\ states[m].PityCounter > 0

\* C6 as stated: no command but the delete of a name changes the stored
\* Configuration of that name.
C6_ConfigImmutableUntilDeleted ==
    [][\A n \in Names :
         n \in DOMAIN configFiles /\ ~Ran("delete", n)
            => n \in DOMAIN configFiles' /\ configFiles'[n] = configFiles[n]
      ]_vars

\* C6 amended: the Configuration of a name changes only in a create or a
\* delete of that name.
C6_ConfigChangedOnlyByCreateDelete ==
    [][\A n \in Names :
         ConfigChanged(n) => out'.name = n /\ out'.cmd \in {"create", "delete"}
      ]_vars

\* a roll was committed while both names have a Configuration
C6_Witness ==
    /\ RollCommitted
    /\ DOMAIN configFiles = Names
    /\ \E m \in Names : m # out.name /\ configFiles[m] # configFiles[out.name]

\* C7: a State record exists for a name iff a Configuration exists for it.
C7_StateIffConfig == DOMAIN states = DOMAIN configFiles

\* C8: the effective chance a roll prints is at most 100.
C8_EffectiveAtMost100 ==
    out.cmd = "roll" /\ out.printed => out.report.effective <= 100

\* a roll printed 100 for a base chance and pity bonus that sum to more
C8_Witness ==
    /\ out.cmd = "roll" /\ out.printed
    /\ out.report.base + out.report.bonus > 100
    /\ out.report.effective = 100

\* C9: the chance show prints is min(100, chance + pity_counter*grace).
C9_ShowPrintsClampedChance ==
    out.cmd = "show" /\ out.err = "none"
        => out.chance = Min100(configFiles[out.name].Chance
                               + states[out.name].PityCounter
                                 * configFiles[out.name].Grace)

\* C10: a committed roll leaves last_roll equal to its raw roll, in 1..100,
\* failed or not; last_roll becomes 0 only in a create of that name.
C10_LastRollIsRawRoll ==
    [][/\ \A n \in Names :
            /\ Ran("roll", n) /\ out'.err = "none"
                  => /\ states'[n].LastRoll = out'.report.roll
                     /\ states'[n].LastRoll \in 1..100
            /\ n \in DOMAIN states' /\ states'[n].LastRoll = 0
                                    /\ StateChanged(n)
                  => Ran("create", n)
      ]_vars

\* a failed roll was committed and last_roll is its raw roll
C10_Witness ==
    /\ RollCommitted
    /\ ~out.report.success
    /\ out.report.roll > out.report.effective
    /\ states[out.name].LastRoll = out.report.roll

----------------------------------------------------------------------------
(* Properties of SpecConc *)

\* the process has roll.db open
Holds(p) == pc[p] \in {"load", "read", "write", "exit"}

\* the process waits in bolt.Open for the file lock
Waits(p) == pc[p] = "open" /\ flock # NoProc

\* C3: no process writes the State of a name while another is between its
\* read and its write of that State, and every committed write is the roll of
\* the State that was persisted just before it.
C3_RollsAreSerial ==
    [][\A p \in Procs :
         /\ pc'[p] = "write" => local'[p].state = states'[pname'[p]]
         /\ pc[p] = "write" /\ pc'[p] = "exit" /\ states' # states
               => \E varianceRoll \in VarianceRolls(configFiles[pname[p]]) :
                  \E second \in SecondDraws(varianceRoll) :
                  \E roll \in Rolls :
                     states'[pname[p]] =
                        RollState(configFiles[pname[p]], states[pname[p]],
                                  second, roll)
      ]_vars

\* one process has committed a roll of a name that an earlier roll had
\* already changed, while another process waits to roll the same name
C3_Witness ==
    \E p, q \in Procs :
       /\ p # q
       /\ pname[p] = pname[q]
       /\ pc[p] = "exit" /\ pc[q] = "open"
       /\ local[p].state.LastRoll # 0
       /\ states[pname[p]] # local[p].state

\* C4 as stated: a process never waits for a process that operates on a
\* different name.
C4_DifferentNamesDoNotBlock ==
    \A p \in Procs : Waits(p) => pname[flock] = pname[p]

\* C4 amended: at most one process has roll.db open at a time, whatever the
\* names, and it is the holder of the file lock.
C4_OneProcessHoldsStore ==
    \A p, q \in Procs :
       Holds(p) /\ Holds(q) => p = q /\ flock = p

\* a process waits while a process rolling a different name has the store
C4_Witness ==
    \E p, q \in Procs :
       /\ Waits(p)
       /\ flock = q /\ Holds(q)
       /\ pname[p] # pname[q]

----------------------------------------------------------------------------
(* SpecEngine: one Configuration as create wrote it, its fresh State, and
   the rolls of it, each with the draws it made *)

EngineChances == {0, 10, 100}
EngineGraces == {0, 5, MaxGrace, 100}
EnginePities == 0..MaxEnginePity
EngineVariances == 0..MaxVariance

\* variant of EngineRolls for a roll drawn as rand.Intn(100), without the + 1
EngineRollsFromZero == {r \in 0..99 : r % 5 \in {0, 1}}

\* rand.Intn(100) + 1 ranges over 1..100; sampled at both sides of every
\* effective chance the Configurations above can give
EngineRolls == {r \in 1..100 : r % 5 \in {0, 1}}

\* the draws of one roll: varianceRoll and the second draw are made only
\* when config.Variance > 0; t is the second draw counted from 1
Draws(config, varianceRoll, second, roll) ==
    [drawn |-> config.Variance > 0,
     v     |-> IF config.Variance > 0 THEN varianceRoll ELSE 0,
     t     |-> IF config.Variance > 0 THEN second + 1 ELSE 0,
     roll  |-> roll]

\* the state after createCmd completed for one name
InitEngine ==
    /\ \E c \in EngineChances, g \in EngineGraces,
          p \in EnginePities, v \in EngineVariances :
          /\ ValidArgs(c, g, p, v)
          /\ eng = [rolled |-> FALSE,
                    config |-> Config("a", c, g, p, v),
                    state  |-> State(0, 0),
                    rolls  |-> 0,
                    fails  |-> 0]
    /\ configFiles = EmptyStore
    /\ bucket = FALSE
    /\ states = EmptyStore
    /\ out = Ended("none", "", "none")
    /\ pc = [p \in Procs |-> "idle"]
    /\ pname = [p \in Procs |-> "a"]
    /\ local = [p \in Procs |-> NoLocal]
    /\ flock = NoProc

\* one committed roll: rolls counts the rolls since the create, fails the
\* failed rolls since the create or the last success
EngineRoll ==
    /\ eng.rolls < MaxRolls
    /\ \E varianceRoll \in VarianceRolls(eng.config) :
       \E second \in SecondDraws(varianceRoll) :
       \E roll \in EngineRolls :
          LET report == RollReport(eng.config, eng.state, second, roll)
          IN  eng' = [rolled |-> TRUE,
                      config |-> eng.config,
                      state  |-> RollState(eng.config, eng.state, second, roll),
                      report |-> report,
                      draws  |-> Draws(eng.config, varianceRoll, second, roll),
                      rolls  |-> eng.rolls + 1,
                      fails  |-> IF report.success THEN 0 ELSE eng.fails + 1]
    /\ UNCHANGED <<storeVars, out, procVars>>

NextEngine == EngineRoll

SpecEngine == InitEngine /\ [][NextEngine]_vars

----------------------------------------------------------------------------
(* Properties of SpecEngine *)

MinOf(x, y) == IF x < y THEN x ELSE y

\* the step is a roll whose predecessors, k of them, all failed
FailedSoFar(k) == eng'.rolls = eng.rolls + 1 /\ eng.rolls = k /\ eng.fails = k

\* C11: with variance = 0, the roll that follows k failed rolls of a fresh
\* State uses min(100, chance + min(k, pity)*grace), and if it fails too the
\* counter is min(k+1, pity); for 10/5/3/0 that is 10, 15, 20, 25 and
\* 1, 2, 3, 3.
C11_PityAfterFailures ==
    [][\A k \in 0..MaxRolls :
         FailedSoFar(k) /\ eng.config.Variance = 0
            => /\ eng.state.PityCounter = MinOf(k, eng.config.Pity)
               /\ eng'.report.effective =
                     Min100(eng.config.Chance
                            + MinOf(k, eng.config.Pity) * eng.config.Grace)
               /\ ~eng'.report.success
                     => eng'.state.PityCounter = MinOf(k + 1, eng.config.Pity)
               /\ eng.config = Config("a", 10, 5, 3, 0) /\ k < 4
                     => /\ eng'.report.effective = <<10, 15, 20, 25>>[k + 1]
                        /\ ~eng'.report.success
                              => eng'.state.PityCounter = <<1, 2, 3, 3>>[k + 1]
      ]_vars

\* the fourth failed roll of 10/5/3/0: effective chance 25, counter still 3
C11_Witness ==
    /\ eng.rolled
    /\ eng.config = Config("a", 10, 5, 3, 0)
    /\ eng.rolls = 4 /\ eng.fails = 4
    /\ eng.report.effective = 25
    /\ eng.state.PityCounter = 3


\* C12: with pity = 0 the counter stays 0 and every roll prints a pity bonus
\* of 0; with variance = 0 as well, the effective chance is the base chance.
C12_NoPityNoBonus ==
    eng.config.Pity = 0
        => /\ eng.state.PityCounter = 0
           /\ eng.rolled
                 => /\ eng.report.pity = 0
                    /\ eng.report.bonus = 0
                    /\ eng.config.Variance = 0
                          => eng.report.effective = eng.config.Chance

\* two failed rolls with pity 0, variance 0 and a positive grace
C12_Witness ==
    /\ eng.rolled
    /\ eng.config.Pity = 0 /\ eng.config.Variance = 0
    /\ eng.config.Grace > 0 /\ eng.config.Chance > 0
    /\ eng.fails >= 2
    /\ eng.report.effective = eng.config.Chance
    /\ eng.state.PityCounter = 0

\* C13: with variance = 1 the draws are v = 1, t = 1 and every roll uses
\* min(100, chance + pity_counter*grace + grace); for 0/100/0/1 that is 100
\* and a raw roll of 1 succeeds.
C13_VarianceOneAlwaysFires ==
    eng.rolled /\ eng.config.Variance = 1
        => /\ eng.draws.v = 1 /\ eng.draws.t = 1
           /\ eng.report.effective =
                 Min100(eng.config.Chance + eng.report.pity * eng.config.Grace
                        + eng.config.Grace)
           /\ eng.config = Config("a", 0, 100, 0, 1)
                 => /\ eng.report.effective = 100
                    /\ eng.report.roll = 1 => eng.report.success

\* 0/100/0/1 rolled a raw 1 and succeeded
C13_Witness ==
    /\ eng.rolled
    /\ eng.config = Config("a", 0, 100, 0, 1)
    /\ eng.report.roll = 1
    /\ eng.report.effective = 100
    /\ eng.report.success

\* C14: with chance = 0 and grace = 0 no roll succeeds.
C14_ZeroChanceNeverSucceeds ==
    eng.rolled /\ eng.config.Chance = 0 /\ eng.config.Grace = 0
        => ~eng.report.success /\ eng.fails = eng.rolls

\* chance 0, grace 0: a roll at a positive counter whose variance bonus fired
C14_Witness ==
    /\ eng.rolled
    /\ eng.config.Chance = 0 /\ eng.config.Grace = 0
    /\ eng.config.Pity > 0 /\ eng.config.Variance > 0
    /\ eng.report.pity > 0
    /\ eng.draws.t = 1
    /\ eng.report.roll = 1
    /\ ~eng.report.success

C19_SuccessAtPityCap ==
    eng.config.Chance + eng.config.Pity * eng.config.Grace >= 100
        => eng.fails <= eng.config.Pity

\* after pity failed rolls, a raw roll of 100 succeeded at the cap
C19_Witness ==
    /\ eng.rolled
    /\ eng.config.Chance < 100 /\ eng.config.Pity > 1
    /\ eng.config.Chance + eng.config.Pity * eng.config.Grace >= 100
    /\ eng.config.Chance + (eng.config.Pity - 1) * eng.config.Grace < 100
    /\ eng.report.pity = eng.config.Pity
    /\ eng.report.roll = 100 /\ eng.report.success
    /\ eng.fails = 0

----------------------------------------------------------------------------
(* More properties of Spec *)

\* chance, grace, pity and variance of a Configuration are in range
InRange(config) ==
    /\ config.Chance \in 0..100
    /\ config.Grace >= 0
    /\ config.Pity >= 0
    /\ config.Variance >= 0

\* C15: a create that reports a validation error changes no Configuration
\* and no State, a create that completes leaves a Configuration and a State
\* for its name, and every stored Configuration is in range.
C15_CreateValidates ==
    [][/\ \A n \in Names :
            /\ Ran("create", n) /\ out'.err = "validation"
                  => UNCHANGED storeVars
            /\ Ran("create", n) /\ out'.err = "none"
                  => /\ n \in DOMAIN configFiles' /\ n \in DOMAIN states'
                     /\ InRange(configFiles'[n])
       /\ \A n \in DOMAIN configFiles' : InRange(configFiles'[n])
      ]_vars

\* a create was refused while the stores hold a rolled State
C15_Witness ==
    /\ out.cmd = "create" /\ out.err = "validation"
    /\ out.name \in DOMAIN configFiles
    /\ out.name \in DOMAIN states
    /\ states[out.name].PityCounter > 0

\* C16: roll, show and delete of a name without a Configuration end with an
\* error and leave every Configuration and every State record as it was.
C16_UnknownNameChangesNothing ==
    [][\A n \in Names :
         /\ out'.cmd \in {"roll", "show", "delete"}
         /\ out'.name = n
         /\ n \notin DOMAIN configFiles
         => out'.err # "none" /\ UNCHANGED storeVars
      ]_vars

\* a delete of a name with a State record and no Configuration was refused
C16_Witness ==
    /\ out.cmd = "delete" /\ out.err # "none"
    /\ out.name \notin DOMAIN configFiles
    /\ out.name \in DOMAIN states
    /\ states[out.name].LastRoll > 0

\* C20: a roll that printed its report has committed the State it computed.
C20_ReportImpliesCommit ==
    out.cmd = "roll" /\ out.printed
        => states[out.name] =
              State(IF out.report.success THEN 0
                    ELSE IF out.report.pity < configFiles[out.name].Pity
                         THEN out.report.pity + 1 ELSE out.report.pity,
                    out.report.roll)

----------------------------------------------------------------------------
(* SpecDice: the dice command alone, over every dice type *)

\* the strings the switch of diceCmd accepts, and some it does not
AllDiceArgs ==
    {"d4", "D4", "d5", "D5", "d6", "D6", "d8", "D8", "d10", "D10",
     "d12", "D12", "d20", "D20", "d100", "D100", "d7", "6", ""}

\* values of the --shift flag
DiceShifts == {-1, 0, 10}

NextDice == \E t \in AllDiceArgs, s \in DiceShifts : Dice(t, s)

SpecDice == Init /\ [][NextDice]_vars

SupportedSides == {4, 5, 6, 8, 10, 12, 20, 100}

\* the number after the d or D of a supported dice type
SidesOf(diceType) ==
    CASE diceType \in {"d4", "D4"} -> 4
      [] diceType \in {"d5", "D5"} -> 5
      [] diceType \in {"d6", "D6"} -> 6
      [] diceType \in {"d8", "D8"} -> 8
      [] diceType \in {"d10", "D10"} -> 10
      [] diceType \in {"d12", "D12"} -> 12
      [] diceType \in {"d20", "D20"} -> 20
      [] diceType \in {"d100", "D100"} -> 100

\* C17: a dice roll of a supported type is in 1..sides whatever the shift;
\* with shift != 0 the result is roll + shift and the range 1+shift to
\* sides+shift, else the range is 1 to sides; d6 with shift 10 and raw roll 4
\* prints 4, 14 and 11-16.
C17_DiceRollAndShift ==
    out.cmd = "dice" /\ out.err = "none"
        => LET sides == SidesOf(out.dtype)
           IN  /\ sides \in SupportedSides
               /\ out.roll \in 1..sides
               /\ out.shift # 0
                     => /\ out.shifted
                        /\ out.result = out.roll + out.shift
                        /\ out.lo = 1 + out.shift
                        /\ out.hi = sides + out.shift
               /\ out.shift = 0
                     => /\ ~out.shifted
                        /\ out.lo = 1 /\ out.hi = sides
               /\ out.dtype = "d6" /\ out.shift = 10 /\ out.roll = 4
                     => out.result = 14 /\ out.lo = 11 /\ out.hi = 16

\* d6 with shift 10 rolled a raw 4
C17_Witness ==
    /\ out.cmd = "dice" /\ out.err = "none"
    /\ out.dtype = "d6" /\ out.shift = 10
    /\ out.roll = 4 /\ out.result = 14
    /\ out.lo = 11 /\ out.hi = 16

====
